---- MODULE Spec2Model ----
(***************************************************************************)
(* A model of tilepix's TMX decoding pipeline (tmx.go): Read, the layer    *)
(* payload decoders, the GID resolver and the per-layer tileset metadata.  *)
(*                                                                         *)
(* GID and ID are uint32 in the source.  TLC's integers are 32-bit signed, *)
(* so a uint32 is held as the pair <<hi, lo>> of its 16-bit halves         *)
(* (value = hi * 2^16 + lo); the arithmetic below is exact 32-bit unsigned *)
(* arithmetic on that pair.                                                *)
(***************************************************************************)
EXTENDS Integers, Sequences, FiniteSets, TLC

VARIABLES pc, r, m, li, gj, gids, trace, ret, o

vars == <<pc, r, m, li, gj, gids, trace, ret, o>>

---------------------------------------------------------------------------
(* uint32 arithmetic on 16-bit halves *)

W16 == 65536

U32(hi, lo) == <<hi, lo>>

Zero32 == U32(0, 0)

IsU32(a) == a[1] \in 0..(W16 - 1) /\ a[2] \in 0..(W16 - 1)

\* a <= b on uint32
Leq32(a, b) == a[1] < b[1] \/ (a[1] = b[1] /\ a[2] <= b[2])

\* a - b on uint32, wrapping modulo 2^32 as Go's unsigned subtraction does
Sub32(a, b) ==
  LET lo == a[2] - b[2]
      borrow == IF lo < 0 THEN 1 ELSE 0
      hi == a[1] - b[1] - borrow
  IN  U32((hi + W16) % W16, (lo + W16) % W16)

RECURSIVE And16(_, _, _)
\* bitwise AND of two 16-bit values, n bits at a time from the low end
And16(x, y, n) ==
  IF n = 0 \/ x = 0 \/ y = 0 THEN 0
  ELSE (IF x % 2 = 1 /\ y % 2 = 1 THEN 1 ELSE 0) + 2 * And16(x \div 2, y \div 2, n - 1)

\* a & b
And32(a, b) == U32(And16(a[1], b[1], 16), And16(a[2], b[2], 16))

\* a &^ b (AND NOT)
AndNot32(a, b) == U32(And16(a[1], (W16 - 1) - b[1], 16), And16(a[2], (W16 - 1) - b[2], 16))

\* a | b, through a + b - (a & b) on each half
Or32(a, b) == U32(a[1] + b[1] - And16(a[1], b[1], 16), a[2] + b[2] - And16(a[2], b[2], 16))

---------------------------------------------------------------------------
(* constants and errors of the package *)

gidHorizontalFlip == U32(32768, 0)   \* 0x80000000
gidVerticalFlip == U32(16384, 0)     \* 0x40000000
gidDiagonalFlip == U32(8192, 0)      \* 0x20000000
gidFlip == Or32(Or32(gidHorizontalFlip, gidVerticalFlip), gidDiagonalFlip)

NoError == "nil"
UnknownEncodingError == "tmx: invalid encoding scheme"
UnknownCompressionError == "tmx: invalid compression method"
InvalidDecodedDataLenError == "tmx: invalid decoded data length"
InvalidGIDError == "tmx: invalid GID"
InvalidPointsFieldError == "tmx: invalid points string"
InfiniteMapError == "tmx: infinite maps are not currently supported"

\* A *Tileset is the index of the tileset in m.Tilesets; 0 is the nil pointer.
NilTileset == 0

\* A *DecodedTile: ref tells the shared sentinel from a tile allocated by decodeGID.
NilTile ==
  [ref |-> "NilTile", ID |-> Zero32, Tileset |-> NilTileset,
   HorizontalFlip |-> FALSE, VerticalFlip |-> FALSE, DiagonalFlip |-> FALSE, Nil |-> TRUE]

\* the nil *DecodedTile returned beside an error
NoTile == [ref |-> "nil"]

IsNil(t) == t.Nil

---------------------------------------------------------------------------
(* Map.decodeGID *)

RECURSIVE ScanTilesets(_, _, _, _)
\* the loop  for i := len(m.Tilesets) - 1; i >= 0; i--  (i here is 1-based)
ScanTilesets(Tilesets, gid, gidBare, i) ==
  IF i < 1 THEN [tile |-> NoTile, err |-> InvalidGIDError]
  ELSE IF Leq32(Tilesets[i].FirstGID, gidBare)
       THEN [tile |-> [ref |-> "new",
                       ID |-> Sub32(gidBare, Tilesets[i].FirstGID),
                       Tileset |-> i,
                       HorizontalFlip |-> And32(gid, gidHorizontalFlip) # Zero32,
                       VerticalFlip |-> And32(gid, gidVerticalFlip) # Zero32,
                       DiagonalFlip |-> And32(gid, gidDiagonalFlip) # Zero32,
                       Nil |-> FALSE],
             err |-> NoError]
       ELSE ScanTilesets(Tilesets, gid, gidBare, i - 1)

\* decodeGID with the zero test made on the bare GID
decodeGID_ZeroAfterMask(Tilesets, gid) ==
  IF AndNot32(gid, gidFlip) = Zero32 THEN [tile |-> NilTile, err |-> NoError]
  ELSE ScanTilesets(Tilesets, gid, AndNot32(gid, gidFlip), Len(Tilesets))

\* decodeGID scanning the tilesets from the first to the last
decodeGID_Forward(Tilesets, gid) ==
  LET n == Len(Tilesets)
      rev == [k \in 1..n |-> Tilesets[n + 1 - k]]
      d == ScanTilesets(rev, gid, AndNot32(gid, gidFlip), n)
  IN  IF gid = Zero32 THEN [tile |-> NilTile, err |-> NoError]
      ELSE IF d.err # NoError THEN d
      ELSE [d EXCEPT !.tile.Tileset = n + 1 - @]

\* decodeGID looking the GID up with its flag bits left in
decodeGID_NoMask(Tilesets, gid) ==
  IF gid = Zero32 THEN [tile |-> NilTile, err |-> NoError]
  ELSE ScanTilesets(Tilesets, gid, gid, Len(Tilesets))

\* decodeGID giving the nil tile to a GID no tileset owns
decodeGID_DefaultNil(Tilesets, gid) ==
  LET d == ScanTilesets(Tilesets, gid, AndNot32(gid, gidFlip), Len(Tilesets))
  IN  IF gid = Zero32 \/ d.err # NoError THEN [tile |-> NilTile, err |-> NoError]
      ELSE d

\* decodeGID giving the GID to the tileset of the largest FirstGID that is at
\* most the bare GID, wherever it stands in the list
decodeGID_LargestFirstGID(Tilesets, gid) ==
  LET gidBare == AndNot32(gid, gidFlip)
      own == {k \in 1..Len(Tilesets) : Leq32(Tilesets[k].FirstGID, gidBare)}
      best == CHOOSE k \in own :
                \A j \in own : Leq32(Tilesets[j].FirstGID, Tilesets[k].FirstGID)
      d == ScanTilesets(<<Tilesets[best]>>, gid, gidBare, 1)
  IN  IF gid = Zero32 THEN [tile |-> NilTile, err |-> NoError]
      ELSE IF own = {} THEN [tile |-> NoTile, err |-> InvalidGIDError]
      ELSE [d EXCEPT !.tile.Tileset = best]

decodeGID(Tilesets, gid) ==
  IF gid = Zero32 THEN [tile |-> NilTile, err |-> NoError]
  ELSE ScanTilesets(Tilesets, gid, AndNot32(gid, gidFlip), Len(Tilesets))

---------------------------------------------------------------------------
(* Data.decodeCSV.  Text is a sequence of one-character strings. *)

Digits == {"0", "1", "2", "3", "4", "5", "6", "7", "8", "9"}

DigitVal(c) ==
  CASE c = "0" -> 0 [] c = "1" -> 1 [] c = "2" -> 2 [] c = "3" -> 3 [] c = "4" -> 4
    [] c = "5" -> 5 [] c = "6" -> 6 [] c = "7" -> 7 [] c = "8" -> 8 [] c = "9" -> 9

\* the cleaner with r > '0' for r >= '0'
cleaner_NoZero(c) == c \in (Digits \ {"0"}) \/ c = ","

\* the cleaner closure: TRUE when the rune is kept, FALSE when it maps to -1 (dropped)
cleaner(c) == c \in Digits \/ c = ","

\* the text with its white space dropped and every other character kept
StringsMap_SpaceOnly(s) == SelectSeq(s, LAMBDA c : c \notin {" ", "\n", "\t"})

\* strings.Map(cleaner, s)
StringsMap(s) == SelectSeq(s, cleaner)

RECURSIVE SplitFrom(_, _, _, _)
\* strings.Split: cur is the token being read, k the next position
SplitFrom(s, sep, k, cur) ==
  IF k > Len(s) THEN <<cur>>
  ELSE IF s[k] = sep THEN <<cur>> \o SplitFrom(s, sep, k + 1, <<>>)
       ELSE SplitFrom(s, sep, k + 1, Append(cur, s[k]))

StringsSplit(s, sep) == SplitFrom(s, sep, 1, <<>>)

RECURSIVE ParseDigits(_, _, _)
\* strconv.ParseUint(s, 10, 32) from position k on, acc the value read so far
ParseDigits(s, k, acc) ==
  IF k > Len(s) THEN [val |-> acc, err |-> NoError]
  ELSE IF s[k] \notin Digits THEN [val |-> Zero32, err |-> "strconv.ErrSyntax"]
  ELSE LET lo == acc[2] * 10 + DigitVal(s[k])
           hi == acc[1] * 10 + (lo \div W16)
       IN  IF hi >= W16 THEN [val |-> U32(W16 - 1, W16 - 1), err |-> "strconv.ErrRange"]
           ELSE ParseDigits(s, k + 1, U32(hi, lo % W16))

ParseUint(s) ==
  IF s = <<>> THEN [val |-> Zero32, err |-> "strconv.ErrSyntax"]
  ELSE ParseDigits(s, 1, Zero32)

RECURSIVE ParseTokens(_, _, _)
\* the loop  for i, s := range str  of decodeCSV
ParseTokens(str, k, acc) ==
  IF k > Len(str) THEN [gids |-> acc, err |-> NoError]
  ELSE LET d == ParseUint(str[k])
       IN  IF d.err # NoError THEN [gids |-> <<>>, err |-> d.err]
           ELSE ParseTokens(str, k + 1, Append(acc, d.val))

decodeCSV(d) ==
  LET rawDataClean == StringsMap(d.RawData)
      str == StringsSplit(rawDataClean, ",")
  IN  ParseTokens(str, 1, <<>>)

---------------------------------------------------------------------------
(* Data.decodeBase64.  encoding/base64, compress/gzip, compress/zlib and   *)
(* ioutil.ReadAll are library code: a payload carries, as d.Stream, what   *)
(* that reader chain yields for it, the bytes and the error it ends with.  *)

\* decodeBase64 reading the bytes as they are under a compression tag it does not know
decodeBase64_DefaultRaw(d) == [data |-> d.Stream.bytes, err |-> d.Stream.err]

decodeBase64(d) ==
  CASE d.Compression = "gzip" -> [data |-> d.Stream.bytes, err |-> d.Stream.err]
    [] d.Compression = "zlib" -> [data |-> d.Stream.bytes, err |-> d.Stream.err]
    [] d.Compression = "" -> [data |-> d.Stream.bytes, err |-> d.Stream.err]
    [] OTHER -> [data |-> <<>>, err |-> UnknownCompressionError]

---------------------------------------------------------------------------
(* Layer.decode and the three layer decoders *)

\* decodeLayerXML refusing only a layer with too few tile records
decodeLayerXML_AtLeast(l, width, height) ==
  IF Len(l.Data.DataTiles) < width * height
  THEN [gids |-> <<>>, err |-> InvalidDecodedDataLenError]
  ELSE [gids |-> [k \in 1..Len(l.Data.DataTiles) |-> l.Data.DataTiles[k].GID],
        err |-> NoError]

decodeLayerXML(l, width, height) ==
  IF Len(l.Data.DataTiles) # width * height
  THEN [gids |-> <<>>, err |-> InvalidDecodedDataLenError]
  ELSE [gids |-> [k \in 1..Len(l.Data.DataTiles) |-> l.Data.DataTiles[k].GID],
        err |-> NoError]

\* decodeLayerCSV without the comparison of len(gids) with width*height
decodeLayerCSV_NoLengthCheck(l, width, height) ==
  LET d == decodeCSV(l.Data)
  IN  IF d.err # NoError THEN [gids |-> <<>>, err |-> d.err]
      ELSE [gids |-> d.gids, err |-> NoError]

decodeLayerCSV(l, width, height) ==
  LET d == decodeCSV(l.Data)
  IN  IF d.err # NoError THEN [gids |-> <<>>, err |-> d.err]
      ELSE IF Len(d.gids) # width * height
           THEN [gids |-> <<>>, err |-> InvalidDecodedDataLenError]
           ELSE [gids |-> d.gids, err |-> NoError]

\* the four bytes taken most significant first
LittleEndian_Swapped(dataBytes, j) ==
  U32(dataBytes[j + 2] + dataBytes[j + 1] * 256, dataBytes[j + 4] + dataBytes[j + 3] * 256)

\* only the two low bytes taken
LittleEndian_LowHalf(dataBytes, j) == U32(0, dataBytes[j + 1] + dataBytes[j + 2] * 256)

\* GID(b[j]) + GID(b[j+1])<<8 + GID(b[j+2])<<16 + GID(b[j+3])<<24  (j is 0-based)
LittleEndian(dataBytes, j) ==
  U32(dataBytes[j + 3] + dataBytes[j + 4] * 256, dataBytes[j + 1] + dataBytes[j + 2] * 256)

RECURSIVE Base64Loop(_, _, _, _, _, _, _)
\* the nested loops over y and x of decodeLayerBase64
Base64Loop(dataBytes, width, height, y, x, j, acc) ==
  IF y >= height THEN acc
  ELSE IF x >= width THEN Base64Loop(dataBytes, width, height, y + 1, 0, j, acc)
  ELSE Base64Loop(dataBytes, width, height, y, x + 1, j + 4,
                  [acc EXCEPT ![y * width + x + 1] = LittleEndian(dataBytes, j)])

decodeLayerBase64(l, width, height) ==
  LET d == decodeBase64(l.Data)
  IN  IF d.err # NoError THEN [gids |-> <<>>, err |-> d.err]
      ELSE IF Len(d.data) # width * height * 4
           THEN [gids |-> <<>>, err |-> InvalidDecodedDataLenError]
           ELSE [gids |-> Base64Loop(d.data, width, height, 0, 0, 0,
                                     [k \in 1..(width * height) |-> Zero32]),
                 err |-> NoError]

\* Layer.decode falling back to the tile records under an encoding it does not know
decode_DefaultXML(l, width, height) ==
  CASE l.Data.Encoding = "csv" -> decodeLayerCSV(l, width, height)
    [] l.Data.Encoding = "base64" -> decodeLayerBase64(l, width, height)
    [] OTHER -> decodeLayerXML(l, width, height)

decode(l, width, height) ==
  CASE l.Data.Encoding = "csv" -> decodeLayerCSV(l, width, height)
    [] l.Data.Encoding = "base64" -> decodeLayerBase64(l, width, height)
    [] l.Data.Encoding = "" -> decodeLayerXML(l, width, height)
    [] OTHER -> [gids |-> <<>>, err |-> UnknownEncodingError]

---------------------------------------------------------------------------
(* getTileset *)

RECURSIVE TilesetLoop(_, _, _)
\* the loop  for _, tile := range l.DecodedTiles ; tileset is the one found so far
TilesetLoop(DecodedTiles, k, tileset) ==
  IF k > Len(DecodedTiles)
  THEN IF tileset = NilTileset
       THEN [tileset |-> NilTileset, isEmpty |-> TRUE, usesMultipleTilesets |-> FALSE]
       ELSE [tileset |-> tileset, isEmpty |-> FALSE, usesMultipleTilesets |-> FALSE]
  ELSE IF ~DecodedTiles[k].Nil
       THEN IF tileset = NilTileset
            THEN TilesetLoop(DecodedTiles, k + 1, DecodedTiles[k].Tileset)
            ELSE IF tileset # DecodedTiles[k].Tileset
                 THEN [tileset |-> tileset, isEmpty |-> FALSE, usesMultipleTilesets |-> TRUE]
                 ELSE TilesetLoop(DecodedTiles, k + 1, tileset)
       ELSE TilesetLoop(DecodedTiles, k + 1, tileset)

getTileset(l) == TilesetLoop(l.DecodedTiles, 1, NilTileset)

---------------------------------------------------------------------------
(* The document model: Data, Layer, Tileset and Map as xml.Decode fills    *)
(* them, and the writers that produce a payload from a GID sequence.       *)

MkTileset(FirstGID) == [FirstGID |-> FirstGID]

NoStream == [bytes |-> <<>>, err |-> NoError]

MkData(Encoding, Compression, RawData, Stream, DataTiles) ==
  [Encoding |-> Encoding, Compression |-> Compression, RawData |-> RawData,
   Stream |-> Stream, DataTiles |-> DataTiles]

\* a Layer after the structural parse: the derived fields hold Go's zero values
MkLayer(Data) ==
  [Data |-> Data, DecodedTiles |-> <<>>, Tileset |-> NilTileset, Empty |-> FALSE,
   mapParent |-> "nil"]

MkMap(Width, Height, Infinite, Tilesets, Layers) ==
  [Width |-> Width, Height |-> Height, Infinite |-> Infinite,
   Tilesets |-> Tilesets, Layers |-> Layers]

\* the Map before xml.Decode: new(Map)
NewMap == MkMap(0, 0, 0, <<>>, <<>>)

DigitChar(n) ==
  CASE n = 0 -> "0" [] n = 1 -> "1" [] n = 2 -> "2" [] n = 3 -> "3" [] n = 4 -> "4"
    [] n = 5 -> "5" [] n = 6 -> "6" [] n = 7 -> "7" [] n = 8 -> "8" [] n = 9 -> "9"

\* a / 10 and a % 10 on uint32
DivMod10(a) ==
  LET t == (a[1] % 10) * W16 + a[2]
  IN  [quot |-> U32(a[1] \div 10, t \div 10), rem |-> t % 10]

RECURSIVE FormatUint(_)
\* the decimal text of a uint32, no sign and no leading zero
FormatUint(a) ==
  LET dm == DivMod10(a)
  IN  IF dm.quot = Zero32 THEN <<DigitChar(dm.rem)>>
      ELSE Append(FormatUint(dm.quot), DigitChar(dm.rem))

RECURSIVE WriteCSV(_)
\* a GID sequence as comma-separated decimal text
WriteCSV(g) ==
  IF g = <<>> THEN <<>>
  ELSE IF Len(g) = 1 THEN FormatUint(g[1])
  ELSE FormatUint(g[1]) \o <<",">> \o WriteCSV(Tail(g))

RECURSIVE WriteBytes(_)
\* a GID sequence as 4 little-endian bytes per GID
WriteBytes(g) ==
  IF g = <<>> THEN <<>>
  ELSE <<g[1][2] % 256, g[1][2] \div 256, g[1][1] % 256, g[1][1] \div 256>>
       \o WriteBytes(Tail(g))

XMLLayer(g) ==
  MkLayer(MkData("", "", <<>>, NoStream, [k \in 1..Len(g) |-> [GID |-> g[k]]]))

CSVLayer(text) == MkLayer(MkData("csv", "", text, NoStream, <<>>))

Base64Layer(Compression, bytes, err) ==
  MkLayer(MkData("base64", Compression, <<>>, [bytes |-> bytes, err |-> err], <<>>))

---------------------------------------------------------------------------
(* Read as a sequential process.  r is the io.Reader's content, m the Map  *)
(* being built, li and gj the loop indices over layers and GIDs (1-based), *)
(* gids the GIDs of the layer being resolved, ret what Read returned.  o   *)
(* is the Object the geometry queries are made on; Read handles none.      *)
(* trace records the calls made so far, and the line Read logs for a layer *)
(* that uses several tilesets.                                             *)

NotReturned == [map |-> "none", err |-> "none"]

\* the nil *Object
NoObject == [ref |-> "nil"]

Return(map, err) == [map |-> map, err |-> err]

\* m := new(Map); d.Decode(m)
XMLDecode ==
  /\ pc = "Read"
  /\ IF r.xmlErr
     THEN /\ ret' = Return("nil", "xml: syntax error")
          /\ pc' = "done"
          /\ m' = m
     ELSE /\ m' = r.doc
          /\ pc' = "infinite"
          /\ ret' = ret
  /\ UNCHANGED <<r, li, gj, gids, trace, o>>

\* Read going on to decodeLayers whatever m.Infinite is
CheckInfinite_Skip ==
  /\ pc = "infinite"
  /\ pc' = "decodeLayers"
  /\ li' = 1
  /\ UNCHANGED <<r, m, gj, gids, trace, ret, o>>

\* if m.Infinite == 1 { return nil, InfiniteMapError }; else enter m.decodeLayers()
CheckInfinite ==
  /\ pc = "infinite"
  /\ IF m.Infinite = 1
     THEN /\ ret' = Return("nil", InfiniteMapError)
          /\ pc' = "done"
          /\ li' = li
     ELSE /\ pc' = "decodeLayers"
          /\ li' = 1
          /\ ret' = ret
  /\ UNCHANGED <<r, m, gj, gids, trace, o>>

\* decodeLayers going on to the next layer when one does not decode
DecodeLayer_Continue ==
  /\ pc = "decodeLayers"
  /\ li <= Len(m.Layers)
  /\ LET d == decode(m.Layers[li], m.Width, m.Height)
     IN  IF d.err # NoError
         THEN /\ li' = li + 1
              /\ UNCHANGED <<m, gids, gj, pc>>
         ELSE /\ gids' = d.gids
              /\ m' = [m EXCEPT !.Layers[li].DecodedTiles = [k \in 1..Len(d.gids) |-> NoTile]]
              /\ gj' = 1
              /\ pc' = "decodeGIDs"
              /\ li' = li
  /\ trace' = Append(trace, <<"decode", li>>)
  /\ UNCHANGED <<r, ret, o>>

\* decodeLayers, one layer: gids, err := l.decode(m.Width, m.Height) and
\* l.DecodedTiles = make([]*DecodedTile, len(gids))
DecodeLayer ==
  /\ pc = "decodeLayers"
  /\ li <= Len(m.Layers)
  /\ LET d == decode(m.Layers[li], m.Width, m.Height)
     IN  IF d.err # NoError
         THEN /\ ret' = Return("nil", d.err)
              /\ pc' = "done"
              /\ UNCHANGED <<m, gids, gj>>
         ELSE /\ gids' = d.gids
              /\ m' = [m EXCEPT !.Layers[li].DecodedTiles = [k \in 1..Len(d.gids) |-> NoTile]]
              /\ gj' = 1
              /\ pc' = "decodeGIDs"
              /\ ret' = ret
  /\ trace' = Append(trace, <<"decode", li>>)
  /\ UNCHANGED <<r, li, o>>

\* decodeLayers, one GID of the layer: decTile, err := m.decodeGID(gids[j])
ResolveGID ==
  /\ pc = "decodeGIDs"
  /\ gj <= Len(gids)
  /\ LET d == decodeGID(m.Tilesets, gids[gj])
     IN  IF d.err # NoError
         THEN /\ ret' = Return("nil", d.err)
              /\ pc' = "done"
              /\ UNCHANGED <<m, gj>>
         ELSE /\ m' = [m EXCEPT !.Layers[li].DecodedTiles[gj] = d.tile]
              /\ gj' = gj + 1
              /\ UNCHANGED <<pc, ret>>
  /\ trace' = Append(trace, <<"decodeGID", li, gj>>)
  /\ UNCHANGED <<r, li, gids, o>>

\* decodeLayers: the inner loop ends, on to the next layer
NextLayer ==
  /\ pc = "decodeGIDs"
  /\ gj > Len(gids)
  /\ li' = li + 1
  /\ pc' = "decodeLayers"
  /\ UNCHANGED <<r, m, gj, gids, trace, ret, o>>

\* decodeLayers returns nil; Read goes on to its own loop over the layers
DecodeLayersDone ==
  /\ pc = "decodeLayers"
  /\ li > Len(m.Layers)
  /\ li' = 1
  /\ pc' = "tilesets"
  /\ UNCHANGED <<r, m, gj, gids, trace, ret, o>>

\* Read's loop body with l.Tileset assigned and l.Empty left as it was
LayerTileset_NoEmpty ==
  /\ pc = "tilesets"
  /\ li <= Len(m.Layers)
  /\ LET t == getTileset(m.Layers[li])
     IN  IF t.usesMultipleTilesets
         THEN /\ m' = [m EXCEPT !.Layers[li].mapParent = "m"]
              /\ trace' = trace \o <<<<"getTileset", li>>, <<"multiple tilesets in use", li>>>>
         ELSE /\ m' = [m EXCEPT !.Layers[li].mapParent = "m",
                                !.Layers[li].Tileset = t.tileset]
              /\ trace' = Append(trace, <<"getTileset", li>>)
  /\ li' = li + 1
  /\ UNCHANGED <<pc, r, gj, gids, ret, o>>

\* Read's loop body without the continue: the fields are assigned for every layer
LayerTileset_NoContinue ==
  /\ pc = "tilesets"
  /\ li <= Len(m.Layers)
  /\ LET t == getTileset(m.Layers[li])
     IN  /\ m' = [m EXCEPT !.Layers[li].mapParent = "m",
                           !.Layers[li].Empty = t.isEmpty,
                           !.Layers[li].Tileset = t.tileset]
         /\ trace' = IF t.usesMultipleTilesets
                     THEN trace \o <<<<"getTileset", li>>, <<"multiple tilesets in use", li>>>>
                     ELSE Append(trace, <<"getTileset", li>>)
  /\ li' = li + 1
  /\ UNCHANGED <<pc, r, gj, gids, ret, o>>

\* Read's loop body: l.mapParent = m; getTileset(l); when the layer uses several
\* tilesets, log.Debug("Read: multiple tilesets in use") and continue; otherwise
\* l.Empty, l.Tileset = isEmpty, tileset
LayerTileset ==
  /\ pc = "tilesets"
  /\ li <= Len(m.Layers)
  /\ LET t == getTileset(m.Layers[li])
     IN  IF t.usesMultipleTilesets
         THEN /\ m' = [m EXCEPT !.Layers[li].mapParent = "m"]
              /\ trace' = trace \o <<<<"getTileset", li>>, <<"multiple tilesets in use", li>>>>
         ELSE /\ m' = [m EXCEPT !.Layers[li].mapParent = "m",
                                !.Layers[li].Empty = t.isEmpty,
                                !.Layers[li].Tileset = t.tileset]
              /\ trace' = Append(trace, <<"getTileset", li>>)
  /\ li' = li + 1
  /\ UNCHANGED <<pc, r, gj, gids, ret, o>>

\* return m, nil
ReadReturn ==
  /\ pc = "tilesets"
  /\ li > Len(m.Layers)
  /\ ret' = Return("m", NoError)
  /\ pc' = "done"
  /\ UNCHANGED <<r, m, li, gj, gids, trace, o>>

Next ==
  \/ XMLDecode
  \/ CheckInfinite
  \/ DecodeLayer
  \/ ResolveGID
  \/ NextLayer
  \/ DecodeLayersDone
  \/ LayerTileset
  \/ ReadReturn

---------------------------------------------------------------------------
(* The documents Read is run on. *)

MaxLayers == 2

RECURSIVE SeqsUpTo(_, _)
\* the sequences over S of length at most n
SeqsUpTo(S, n) ==
  IF n = 0 THEN {<<>>}
  ELSE LET shorter == SeqsUpTo(S, n - 1)
       IN  shorter \cup {Append(q, x) : q \in {t \in shorter : Len(t) = n - 1}, x \in S}

\* GIDs by cell: no tile anywhere, one plain GID, two GIDs of which one is flipped,
\* or no tile in every other cell
Pattern(p, k) ==
  CASE p = "nil" -> Zero32
    [] p = "one" -> U32(0, 1)
    [] p = "mix" -> IF k % 2 = 1 THEN U32(0, 1) ELSE U32(32768, 4)
    [] p = "gap" -> IF k % 2 = 1 THEN Zero32 ELSE U32(0, 4)

Fill(p, n) == [k \in 1..n |-> Pattern(p, k)]

\* the layers of a document whose map has n cells: every encoding with a payload of
\* the right length, payloads one GID or some bytes off, unknown tags, a broken stream
LayerKinds ==
  {"xml-nil", "xml-mix", "xml-gap", "xml-long", "csv-one", "csv-long", "base64-mix", "zlib-one",
   "gzip-nil", "base64-short", "zlib-broken", "lzma", "json"}

ReadLayer(kind, n) ==
  CASE kind = "xml-nil" -> XMLLayer(Fill("nil", n))
    [] kind = "xml-mix" -> XMLLayer(Fill("mix", n))
    [] kind = "xml-gap" -> XMLLayer(Fill("gap", n))
    [] kind = "xml-long" -> XMLLayer(Fill("one", n + 1))
    [] kind = "csv-one" -> CSVLayer(WriteCSV(Fill("one", n)))
    [] kind = "csv-long" -> CSVLayer(WriteCSV(Fill("mix", n + 1)))
    [] kind = "base64-mix" -> Base64Layer("", WriteBytes(Fill("mix", n)), NoError)
    [] kind = "zlib-one" -> Base64Layer("zlib", WriteBytes(Fill("one", n)), NoError)
    [] kind = "gzip-nil" -> Base64Layer("gzip", WriteBytes(Fill("nil", n)), NoError)
    [] kind = "base64-short" -> Base64Layer("", Tail(WriteBytes(Fill("one", n + 1))), NoError)
    [] kind = "zlib-broken" -> Base64Layer("zlib", <<1, 0>>, "unexpected EOF")
    [] kind = "lzma" -> Base64Layer("lzma", WriteBytes(Fill("one", n)), NoError)
    [] kind = "json" -> MkLayer(MkData("json", "", <<>>, NoStream, <<>>))

ReadSizes == {<<2, 1>>, <<1, 2>>, <<1, 1>>, <<0, 2>>}

ReadFirstGIDs == {<<>>, <<U32(0, 3)>>, <<U32(0, 1), U32(0, 3)>>, <<U32(0, 3), U32(0, 1)>>}

Tilesets(firstGIDs) == [k \in 1..Len(firstGIDs) |-> MkTileset(firstGIDs[k])]

\* a well-formed document
Doc(d) == [xmlErr |-> FALSE, doc |-> d]

\* a document the structural parse rejects
Malformed == [xmlErr |-> TRUE, doc |-> NewMap]

\* r is one of the documents Read is run on
IsReader(x) ==
  \/ x = Malformed
  \/ \E wh \in ReadSizes, inf \in {0, 1}, fg \in ReadFirstGIDs,
        kinds \in SeqsUpTo(LayerKinds, MaxLayers) :
       x = Doc(MkMap(wh[1], wh[2], inf, Tilesets(fg),
                     [k \in 1..Len(kinds) |-> ReadLayer(kinds[k], wh[1] * wh[2])]))

\* the state when Read is called
Called ==
  /\ pc = "Read"
  /\ m = NewMap
  /\ li = 0
  /\ gj = 0
  /\ gids = <<>>
  /\ trace = <<>>
  /\ ret = NotReturned
  /\ o = NoObject

Init == IsReader(r) /\ Called

Spec == Init /\ [][Next]_vars

---------------------------------------------------------------------------
(* Properties of Read over the documents above. *)

Range(q) == {q[k] : k \in 1..Len(q)}

Returned == pc = "done"

Succeeded == ret.map = "m"

\* the layers of the parsed document are as the parse left them
LayersUntouched ==
  \A k \in 1..Len(r.doc.Layers) :
    /\ m.Layers[k] = r.doc.Layers[k]
    /\ m.Layers[k].DecodedTiles = <<>>
    /\ m.Layers[k].Tileset = NilTileset
    /\ ~m.Layers[k].Empty

\* C1: a document whose map has infinite = 1 makes Read return InfiniteMapError and
\* a nil Map, and Read makes no call of Layer.decode, decodeGID or getTileset for it:
\* the layers stay as the structural parse left them, whatever they contain.
C1_InfiniteRejected ==
  (~r.xmlErr /\ r.doc.Infinite = 1) =>
    /\ pc \in {"Read", "infinite", "done"}
    /\ trace = <<>>
    /\ pc # "Read" => LayersUntouched
    /\ Returned => ret = Return("nil", InfiniteMapError)

\* an infinite document with a layer that could not be decoded has been rejected
C1_Witness ==
  /\ Returned
  /\ ~r.xmlErr
  /\ r.doc.Infinite = 1
  /\ \E k \in 1..Len(r.doc.Layers) :
       decode(r.doc.Layers[k], r.doc.Width, r.doc.Height).err # NoError
  /\ \E k \in 1..Len(r.doc.Layers) :
       decode(r.doc.Layers[k], r.doc.Width, r.doc.Height).err = NoError
  /\ ret.err = InfiniteMapError

\* the number of GIDs a layer's payload holds: tile records, comma-separated
\* fields, or bytes / 4 (-1 when the bytes are no whole number of GIDs, or the
\* encoding is unknown)
PayloadCount(l) ==
  CASE l.Data.Encoding = "" -> Len(l.Data.DataTiles)
    [] l.Data.Encoding = "csv" ->
         Cardinality({k \in 1..Len(l.Data.RawData) : l.Data.RawData[k] = ","}) + 1
    [] l.Data.Encoding = "base64" ->
         IF Len(l.Data.Stream.bytes) % 4 = 0 THEN Len(l.Data.Stream.bytes) \div 4 ELSE -1
    [] OTHER -> -1

\* C2: after a successful Read every layer's DecodedTiles has Width * Height
\* entries, whatever the layer's encoding, and a document with a layer whose
\* payload holds another number of GIDs is not read successfully.
C2_DecodedTilesLength ==
  /\ Succeeded =>
       \A k \in 1..Len(m.Layers) : Len(m.Layers[k].DecodedTiles) = m.Width * m.Height
  /\ (Returned /\ ~r.xmlErr
        /\ \E k \in 1..Len(r.doc.Layers) :
             PayloadCount(r.doc.Layers[k]) # r.doc.Width * r.doc.Height)
       => ~Succeeded

\* a two-cell map with a csv layer and a compressed base64 layer has been read
C2_Witness ==
  /\ Succeeded
  /\ m.Width * m.Height = 2
  /\ \E k \in 1..Len(m.Layers) : m.Layers[k].Data.Encoding = "csv"
  /\ \E k \in 1..Len(m.Layers) :
       m.Layers[k].Data.Encoding = "base64" /\ m.Layers[k].Data.Compression = "zlib"

\* the errors that decoding the layers of doc and resolving their GIDs produce
Failures(doc) ==
  UNION {LET d == decode(doc.Layers[k], doc.Width, doc.Height)
         IN  IF d.err # NoError THEN {d.err}
             ELSE {decodeGID(doc.Tilesets, d.gids[e]).err : e \in 1..Len(d.gids)}
                    \ {NoError}
         : k \in 1..Len(doc.Layers)}

\* C3: Read returns a Map or an error, never both; a document of which a layer
\* fails to decode or a GID fails to resolve gets a nil Map and one of those
\* errors; a Map returned has, in every layer, one resolved tile per decoded GID.
C3_AllOrNothing ==
  /\ Succeeded => ret.err = NoError
  /\ (Returned /\ ret.err # NoError) => ret.map = "nil"
  /\ (Returned /\ ~r.xmlErr /\ r.doc.Infinite # 1 /\ Failures(r.doc) # {})
       => (ret.map = "nil" /\ ret.err \in Failures(r.doc))
  /\ Succeeded =>
       \A k \in 1..Len(m.Layers) :
         LET d == decode(r.doc.Layers[k], m.Width, m.Height)
         IN  /\ d.err = NoError
             /\ Len(m.Layers[k].DecodedTiles) = Len(d.gids)
             /\ \A e \in 1..Len(d.gids) :
                  /\ m.Layers[k].DecodedTiles[e] # NoTile
                  /\ m.Layers[k].DecodedTiles[e] = decodeGID(m.Tilesets, d.gids[e]).tile

\* Read failed on the second layer after the first one was decoded and resolved
C3_Witness ==
  /\ Returned
  /\ ret.map = "nil"
  /\ ret.err = InvalidGIDError
  /\ li = 2
  /\ Len(m.Layers[1].DecodedTiles) > 0
  /\ \A e \in 1..Len(m.Layers[1].DecodedTiles) : m.Layers[1].DecodedTiles[e] # NoTile

---------------------------------------------------------------------------
(* Read on one-cell documents: one layer of one tile record, so that Read  *)
(* calls decodeGID once, on that record's GID and the document's tilesets. *)

MaxTilesets == 2

\* bare GIDs: 0, small ones, 2^16 - 1, 2^16 and the largest, 2^29 - 1
BareGIDs == {U32(0, 0), U32(0, 1), U32(0, 2), U32(0, 3), U32(0, 65535), U32(1, 0), U32(8191, 65535)}

\* the eight settings of the three flag bits, as the top bits of the high half
FlagBits == {8192 * f : f \in 0..7}

GIDPool == {U32(b[1] + f, b[2]) : b \in BareGIDs, f \in FlagBits}

\* FirstGIDs: 0 (no firstgid attribute), small ones, 2^16, and one above 2^29
FirstGIDPool == {U32(0, 0), U32(0, 1), U32(0, 3), U32(1, 0), U32(16384, 2)}

IsGIDReader(x) ==
  \E g \in GIDPool, fg \in SeqsUpTo(FirstGIDPool, MaxTilesets) :
    x = Doc(MkMap(1, 1, 0, Tilesets(fg), <<XMLLayer(<<g>>)>>))

InitGID == IsGIDReader(r) /\ Called

SpecGID == InitGID /\ [][Next]_vars

\* the GID of cell 1 of layer 1, and the tile Read stored for it
GIDIn == r.doc.Layers[1].Data.DataTiles[1].GID

TileOut == m.Layers[1].DecodedTiles[1]

\* decodeGID has been called on GIDIn
GIDCalled == <<"decodeGID", 1, 1>> \in Range(trace)

\* the GID with its three top bits cleared
Bare(g) == U32(g[1] % 8192, g[2])

FirstGIDs == {m.Tilesets[k].FirstGID : k \in 1..Len(m.Tilesets)}

\* the tilesets whose FirstGID is at most the bare GID
Owners(g) == {k \in 1..Len(m.Tilesets) : Leq32(m.Tilesets[k].FirstGID, Bare(g))}

\* C4: GID 0 resolves to the shared NilTile, whatever the tilesets are, and IsNil
\* is true of it; a tile resolved from a non-zero GID is not the sentinel and
\* IsNil is false of it.
C4_NilTile ==
  GIDCalled =>
    /\ GIDIn = Zero32 =>
         (ret.err # InvalidGIDError /\ TileOut = NilTile /\ TileOut.ref = "NilTile"
            /\ IsNil(TileOut))
    /\ (GIDIn # Zero32 /\ TileOut # NoTile) =>
         (TileOut.ref = "new" /\ ~IsNil(TileOut))

\* GID 0 resolved against no tileset, and a GID of flag bits only resolved to a tile
C4_WitnessNil == GIDCalled /\ GIDIn = Zero32 /\ m.Tilesets = <<>> /\ IsNil(TileOut)

C4_Witness ==
  /\ GIDCalled
  /\ GIDIn = U32(32768, 0)
  /\ TileOut # NoTile
  /\ ~IsNil(TileOut)

Ascending(ts) ==
  \A a, b \in 1..Len(ts) : a < b => Leq32(ts[a].FirstGID, ts[b].FirstGID)

\* C5: with the tilesets in ascending FirstGID order, a non-zero GID whose bare
\* value is at least some FirstGID resolves to a tileset whose FirstGID is the
\* largest one that is at most the bare GID.
C5_LargestFirstGID ==
  (GIDCalled /\ GIDIn # Zero32 /\ Ascending(m.Tilesets) /\ Owners(GIDIn) # {}) =>
    /\ TileOut # NoTile
    /\ TileOut.Tileset \in Owners(GIDIn)
    /\ \A k \in Owners(GIDIn) :
         Leq32(m.Tilesets[k].FirstGID, m.Tilesets[TileOut.Tileset].FirstGID)

\* a flagged GID between the FirstGIDs of two tilesets in ascending order
C5_Witness ==
  /\ GIDCalled
  /\ Len(m.Tilesets) = 2
  /\ m.Tilesets[1].FirstGID = U32(0, 1)
  /\ m.Tilesets[2].FirstGID = U32(1, 0)
  /\ GIDIn = U32(16384, 65535)
  /\ TileOut # NoTile
  /\ TileOut.Tileset = 1

\* bit b of the high half of a uint32 (bit 16 + b of the value)
HighBit(g, b) == (g[1] \div b) % 2 = 1

\* a + b = c as integers, with no wrap-around
SumIs(a, b, c) ==
  LET carry == (a[2] + b[2]) \div W16
  IN  (a[2] + b[2]) % W16 = c[2] /\ a[1] + b[1] + carry = c[1]

\* C6: for a non-zero GID resolved to a tileset with FirstGID F, the three flip
\* flags are bits 31, 30 and 29 of the GID, ID + F is the bare GID exactly, and
\* every GID with the same bare value resolves to the same tileset and ID.
C6_FlagsAndID ==
  (GIDCalled /\ GIDIn # Zero32 /\ TileOut # NoTile) =>
    /\ TileOut.HorizontalFlip = HighBit(GIDIn, 32768)
    /\ TileOut.VerticalFlip = HighBit(GIDIn, 16384)
    /\ TileOut.DiagonalFlip = HighBit(GIDIn, 8192)
    /\ TileOut.Tileset \in 1..Len(m.Tilesets)
    /\ SumIs(TileOut.ID, m.Tilesets[TileOut.Tileset].FirstGID, Bare(GIDIn))
    /\ \A f \in FlagBits :
         LET other == U32(Bare(GIDIn)[1] + f, GIDIn[2])
             d == decodeGID(m.Tilesets, other)
         IN  other # Zero32 =>
               /\ d.err = NoError
               /\ d.tile.Tileset = TileOut.Tileset
               /\ d.tile.ID = TileOut.ID

\* a GID with the horizontal and diagonal bits set, resolved with a borrow in ID
C6_Witness ==
  /\ GIDCalled
  /\ GIDIn = U32(32768 + 8192 + 1, 0)
  /\ TileOut # NoTile
  /\ m.Tilesets[TileOut.Tileset].FirstGID = U32(0, 3)
  /\ TileOut.ID = U32(0, 65533)
  /\ TileOut.HorizontalFlip /\ ~TileOut.VerticalFlip /\ TileOut.DiagonalFlip

\* C7: a non-zero GID whose bare value is below every FirstGID (so also with no
\* tileset at all) gets InvalidGIDError and no tile, not the nil tile, and Read
\* returns that error and a nil Map.
C7_InvalidGID ==
  (GIDCalled /\ GIDIn # Zero32 /\ Owners(GIDIn) = {}) =>
    /\ TileOut = NoTile
    /\ pc = "done"
    /\ ret = Return("nil", InvalidGIDError)

\* a GID below both FirstGIDs, and a GID of flag bits only with no tileset
C7_Witness ==
  /\ GIDCalled
  /\ Len(m.Tilesets) = 2
  /\ GIDIn = U32(0, 2)
  /\ ret.err = InvalidGIDError

C7_WitnessEmpty ==
  /\ GIDCalled
  /\ m.Tilesets = <<>>
  /\ GIDIn = U32(8192, 0)
  /\ ret.err = InvalidGIDError

---------------------------------------------------------------------------
(* Read on documents of one layer and one tileset with FirstGID 0, which   *)
(* owns every GID: what Layer.decode returns is gids, or the error Read    *)
(* returns.                                                                *)

MaxDim == 2

MaxRecords == 5

MaxPayload == 4

MaxCells == 4

\* width and height as the map element's attributes give them: any int
Dims == (-1)..MaxDim

OwnsAll == <<MkTileset(Zero32)>>

\* Layer.decode has been called on the layer
DecodeCalled == <<"decode", 1>> \in Range(trace)

\* ... and returned GIDs
Decoded == DecodeCalled /\ pc # "Read" /\ ret.err \in {"none", NoError}

Cells == m.Width * m.Height

\* tile records: no tile, or a flipped tile
RecordGIDs == {Zero32, U32(32768, 7)}

IsXMLReader(x) ==
  \E w \in Dims, h \in Dims, n \in 0..MaxRecords :
    \E g \in [1..n -> RecordGIDs] :
      x = Doc(MkMap(w, h, 0, OwnsAll, <<XMLLayer(g)>>))

InitXML == IsXMLReader(r) /\ Called

SpecXML == InitXML /\ [][Next]_vars

Records == r.doc.Layers[1].Data.DataTiles

\* C8: a layer with no encoding attribute decodes, for any width and height, to
\* the GIDs of its tile records in document order when there are width * height
\* of them, and fails with InvalidDecodedDataLenError for any other number.
C8_StructuredRecords ==
  DecodeCalled =>
    /\ Len(Records) = Cells =>
         /\ Decoded
         /\ Len(gids) = Len(Records)
         /\ \A k \in 1..Len(Records) : gids[k] = Records[k].GID
    /\ Len(Records) # Cells =>
         (pc = "done" /\ ret = Return("nil", InvalidDecodedDataLenError))

\* two different records of a 2 x 1 map decoded in their order
C8_Witness ==
  /\ Decoded
  /\ m.Width = 2 /\ m.Height = 1
  /\ Len(Records) = 2
  /\ Records[1].GID = U32(32768, 7) /\ Records[2].GID = Zero32
  /\ gids = <<U32(32768, 7), Zero32>>

\* one record too many, and one too few
C8_WitnessMore ==
  DecodeCalled /\ Len(Records) = Cells + 1 /\ ret.err = InvalidDecodedDataLenError

C8_WitnessFewer ==
  DecodeCalled /\ Len(Records) = Cells - 1 /\ ret.err = InvalidDecodedDataLenError

\* GIDs written as text: 0, 10, 100000, 2^31 + 1 and 2^32 - 1
TextGIDs == {Zero32, U32(0, 10), U32(1, 34464), U32(32768, 1), U32(65535, 65535)}

\* a csv document written from a grid of w * h GIDs; grid keeps what was written
IsCSVReader(x) ==
  \E w \in 0..MaxCells, h \in 0..MaxCells :
    /\ w * h <= MaxCells
    /\ \E g \in [1..(w * h) -> TextGIDs] :
         x = [xmlErr |-> FALSE, grid |-> g,
              doc |-> MkMap(w, h, 0, OwnsAll, <<CSVLayer(WriteCSV(g))>>)]

InitCSV == IsCSVReader(r) /\ Called

SpecCSV == InitCSV /\ [][Next]_vars

\* C9 as stated: the csv text of every grid, of any size, decodes to the grid.
C9_RoundTripAnyGrid == DecodeCalled => (Decoded /\ gids = r.grid)

\* C9: the csv text of every grid of at least one cell decodes to the grid; the
\* text of a grid of no cell is empty and does not decode.
C9_RoundTrip ==
  DecodeCalled =>
    /\ Cells >= 1 => (Decoded /\ gids = r.grid)
    /\ Cells = 0 => (r.doc.Layers[1].Data.RawData = <<>> /\ ret = Return("nil", "strconv.ErrSyntax"))

\* a grid holding 0, 2^32 - 1 and 100000 has come back
C9_Witness ==
  /\ Decoded
  /\ r.grid = <<Zero32, U32(65535, 65535), U32(1, 34464)>>
  /\ gids = r.grid

\* payload GIDs whose four bytes differ, one with flag bits in its high byte
ByteGIDs == {U32(1027, 513), U32(57344, 1)}

\* what the reader chain yields: the bytes of n GIDs, one byte less or one more,
\* under each compression tag, and a chain that ends with an error
Streams(g) ==
  LET b == WriteBytes(g)
  IN  {<<"", b, NoError>>, <<"zlib", b, NoError>>, <<"gzip", b, NoError>>,
       <<"", Append(b, 9), NoError>>, <<"gzip", Tail(Append(b, 9)), NoError>>,
       <<"zlib", Tail(Append(b, 9)), "unexpected EOF">>}

IsBase64Reader(x) ==
  \E w \in Dims, h \in Dims, n \in 0..MaxPayload :
    \E g \in [1..n -> ByteGIDs] :
      \E st \in Streams(g) :
        x = Doc(MkMap(w, h, 0, OwnsAll, <<Base64Layer(st[1], st[2], st[3])>>))

InitBase64 == IsBase64Reader(r) /\ Called

SpecBase64 == InitBase64 /\ [][Next]_vars

Stream == r.doc.Layers[1].Data.Stream

C10_WitnessLength ==
  /\ DecodeCalled
  /\ Cells = 2
  /\ Len(Stream.bytes) = 9
  /\ ret.err = InvalidDecodedDataLenError

---------------------------------------------------------------------------
(* Read on documents whose layer carries any encoding and compression     *)
(* attribute: the data element holds a payload in every form (tile        *)
(* records, text, and the bytes the reader chain yields), so that         *)
(* whichever decoder the tags select finds one.                           *)

\* encoding attributes: the three the switch of Layer.decode knows, and others
TagEncodings == {"", "csv", "base64", "CSV", "xml", "json", "base64 "}

\* compression attributes: the three the switch of decodeBase64 knows, and others
TagCompressions == {"", "zlib", "gzip", "lzma", "zstd", "ZLIB"}

KnownEncodings == {"", "csv", "base64"}

KnownCompressions == {"", "zlib", "gzip"}

\* payloads for a map of n cells: n GIDs, one GID more, or a reader chain that fails
TagPayloads == {"right", "long", "broken"}

TaggedLayer(enc, comp, payload, n) ==
  LET g == Fill("mix", IF payload = "long" THEN n + 1 ELSE n)
  IN  MkLayer(MkData(enc, comp, WriteCSV(g),
                     IF payload = "broken"
                     THEN [bytes |-> <<>>, err |-> "unexpected EOF"]
                     ELSE [bytes |-> WriteBytes(g), err |-> NoError],
                     [k \in 1..Len(g) |-> [GID |-> g[k]]]))

\* where the tagged layer stands among layers of tile records that do decode
TagPositions == {<<1, 1>>, <<1, 2>>, <<2, 2>>}

\* tagged keeps the index of the layer that carries the tags
IsTagReader(x) ==
  \E enc \in TagEncodings, comp \in TagCompressions, payload \in TagPayloads,
     wh \in {<<1, 1>>, <<2, 1>>}, pos \in TagPositions :
    x = [xmlErr |-> FALSE, tagged |-> pos[1],
         doc |-> MkMap(wh[1], wh[2], 0, OwnsAll,
                       [k \in 1..pos[2] |->
                          IF k = pos[1] THEN TaggedLayer(enc, comp, payload, wh[1] * wh[2])
                          ELSE XMLLayer(Fill("nil", wh[1] * wh[2]))])]

InitTags == IsTagReader(r) /\ Called

SpecTags == InitTags /\ [][Next]_vars

Tagged == r.doc.Layers[r.tagged]

TaggedDecodeCalled == <<"decode", r.tagged>> \in Range(trace)

\* no GID of the tagged layer was resolved and no tile stored for it
TaggedNotResolved ==
  /\ \A e \in 1..Len(trace) : ~(trace[e][1] = "decodeGID" /\ trace[e][2] = r.tagged)
  /\ m.Layers[r.tagged].DecodedTiles = <<>>

\* C11: a layer whose encoding attribute is not "", "csv" or "base64" makes
\* Layer.decode fail with UnknownEncodingError, whatever its compression
\* attribute and its payload are; none of its GIDs is resolved and Read returns
\* that error and a nil Map.
C11_UnknownEncoding ==
  (TaggedDecodeCalled /\ Tagged.Data.Encoding \notin KnownEncodings) =>
    /\ pc = "done"
    /\ ret = Return("nil", UnknownEncodingError)
    /\ TaggedNotResolved

\* a second layer tagged "CSV" with gzip compression and a payload of the
\* right length has made Read fail, after the first layer was decoded
C11_Witness ==
  /\ TaggedDecodeCalled
  /\ r.tagged = 2
  /\ Tagged.Data.Encoding = "CSV"
  /\ Tagged.Data.Compression = "gzip"
  /\ Len(Tagged.Data.DataTiles) = Cells
  /\ Len(m.Layers[1].DecodedTiles) = Cells
  /\ ret = Return("nil", UnknownEncodingError)

\* C12 as stated: a layer with a compression attribute other than "", "zlib"
\* or "gzip" fails to decode with UnknownCompressionError, and Read fails.
C12_AnyLayer ==
  (TaggedDecodeCalled /\ Tagged.Data.Compression \notin KnownCompressions) =>
    /\ pc = "done"
    /\ ret = Return("nil", UnknownCompressionError)

\* C12: a base64 layer with a compression attribute other than "", "zlib" or
\* "gzip" fails to decode with UnknownCompressionError, whatever its payload,
\* and Read returns that error and a nil Map; a layer of tile records or of csv
\* text decodes whatever its compression attribute is.
C12_UnknownCompression ==
  (TaggedDecodeCalled /\ Tagged.Data.Compression \notin KnownCompressions) =>
    /\ Tagged.Data.Encoding = "base64" =>
         /\ pc = "done"
         /\ ret = Return("nil", UnknownCompressionError)
         /\ TaggedNotResolved
    /\ (Tagged.Data.Encoding \in {"", "csv"} /\ Len(Tagged.Data.DataTiles) = Cells) =>
         /\ ret.err \in {"none", NoError}
         /\ Len(m.Layers[r.tagged].DecodedTiles) = Cells

\* a base64 layer tagged "ZLIB" whose bytes have the right length has made Read fail
C12_Witness ==
  /\ TaggedDecodeCalled
  /\ Tagged.Data.Encoding = "base64"
  /\ Tagged.Data.Compression = "ZLIB"
  /\ Tagged.Data.Stream.err = NoError
  /\ Len(Tagged.Data.Stream.bytes) = 4 * Cells
  /\ ret = Return("nil", UnknownCompressionError)

\* a csv layer tagged "lzma" has been read
C12_WitnessCSV ==
  /\ Succeeded
  /\ Tagged.Data.Encoding = "csv"
  /\ Tagged.Data.Compression = "lzma"

---------------------------------------------------------------------------
(* Read on documents of two layers that carry the same grid of GIDs, one   *)
(* as csv text and one as uncompressed base64, in either order.  Read      *)
(* stops at the first layer that fails, so it fails at the second layer    *)
(* exactly when the first layer's encoding was read and the second's not.  *)

MaxGrid == 3

\* grid values: no tile, a plain GID, a flipped GID and one above 2^16
PairGIDs == {Zero32, U32(0, 1), U32(32768, 4), U32(1, 34464)}

PairLayers(first, g) ==
  IF first = "csv"
  THEN <<CSVLayer(WriteCSV(g)), Base64Layer("", WriteBytes(g), NoError)>>
  ELSE <<Base64Layer("", WriteBytes(g), NoError), CSVLayer(WriteCSV(g))>>

\* grid keeps the GIDs that were written
IsPairReader(x) ==
  \E w \in 0..MaxGrid, h \in 0..MaxGrid, fg \in ReadFirstGIDs, first \in {"csv", "base64"} :
    /\ w * h <= MaxGrid
    /\ \E g \in [1..(w * h) -> PairGIDs] :
         x = [xmlErr |-> FALSE, grid |-> g,
              doc |-> MkMap(w, h, 0, Tilesets(fg), PairLayers(first, g))]

InitPair == IsPairReader(r) /\ Called

SpecPair == InitPair /\ [][Next]_vars

\* the fields of a resolved tile that the claim compares
SameTile(a, b) ==
  /\ a.Tileset = b.Tileset
  /\ a.ID = b.ID
  /\ a.HorizontalFlip = b.HorizontalFlip
  /\ a.VerticalFlip = b.VerticalFlip
  /\ a.DiagonalFlip = b.DiagonalFlip
  /\ a.Nil = b.Nil

\* Read failed, at layer k
FailedAt(k) == Returned /\ ret.err # NoError /\ li = k

LayersAgree ==
  /\ Len(m.Layers[1].DecodedTiles) = Len(m.Layers[2].DecodedTiles)
  /\ \A e \in 1..Len(m.Layers[1].DecodedTiles) :
       SameTile(m.Layers[1].DecodedTiles[e], m.Layers[2].DecodedTiles[e])

\* C13 as stated, for every grid: Read never fails at the second layer (one
\* encoding read and the other not), and the two layers of a Map returned hold
\* equal tiles.
C13_AnyGrid ==
  /\ ~FailedAt(2)
  /\ Succeeded => LayersAgree

\* C13: for every grid of at least one cell and every tileset list, the csv
\* layer and the base64 layer both fail or are both read, and when read their
\* DecodedTiles are equal element by element, and resolved from the grid; for a
\* grid of no cell the base64 layer is read and the csv layer is not.
C13_EncodingEquivalence ==
  /\ Cells >= 1 =>
       /\ ~FailedAt(2)
       /\ Succeeded =>
            /\ LayersAgree
            /\ \A e \in 1..Len(r.grid) :
                 m.Layers[1].DecodedTiles[e] = decodeGID(m.Tilesets, r.grid[e]).tile
  /\ (Returned /\ Cells = 0) =>
       /\ ret = Return("nil", "strconv.ErrSyntax")
       /\ m.Layers[li].Data.Encoding = "csv"

\* a grid of three cells with tiles of two tilesets, one flipped, read from both layers
C13_Witness ==
  /\ Succeeded
  /\ r.grid = <<U32(32768, 4), Zero32, U32(0, 1)>>
  /\ Len(m.Tilesets) = 2
  /\ LayersAgree
  /\ m.Layers[2].DecodedTiles[1].Tileset = 2
  /\ m.Layers[2].DecodedTiles[1].HorizontalFlip
  /\ m.Layers[2].DecodedTiles[3].Tileset = 1

\* a grid with a GID no tileset owns: Read failed at the first layer, csv or base64
C13_WitnessFail ==
  /\ FailedAt(1)
  /\ ret.err = InvalidGIDError
  /\ m.Layers[1].Data.Encoding = "base64"
  /\ Cells = 2

---------------------------------------------------------------------------
(* Properties of the per-layer metadata Read derives, over the documents   *)
(* of Spec.                                                                *)

\* Read's loop has derived the metadata of layer k
Derived(k) == <<"getTileset", k>> \in Range(trace)

\* Read has logged that layer k uses several tilesets
LoggedMultiple(k) == <<"multiple tilesets in use", k>> \in Range(trace)

AllNil(l) == \A e \in 1..Len(l.DecodedTiles) : IsNil(l.DecodedTiles[e])

\* the tilesets of the non-nil tiles of a layer
TilesetsOf(l) ==
  {l.DecodedTiles[e].Tileset : e \in {i \in 1..Len(l.DecodedTiles) : ~IsNil(l.DecodedTiles[i])}}

\* C14: after a successful Read the metadata of every layer has been derived, and
\* a layer's Empty flag is true exactly when every entry of its DecodedTiles is
\* the nil tile: false for a layer with tiles of one or of two tilesets, true
\* for a layer of nil tiles only.
C14_EmptyFlag ==
  /\ Succeeded => \A k \in 1..Len(m.Layers) : Derived(k)
  /\ \A k \in 1..Len(m.Layers) :
       Derived(k) => (m.Layers[k].Empty <=> AllNil(m.Layers[k]))

\* a layer with tiles of two tilesets and a layer of two nil tiles have been read
C14_Witness ==
  /\ Succeeded
  /\ Len(m.Layers) = 2
  /\ Cardinality(TilesetsOf(m.Layers[1])) = 2
  /\ ~m.Layers[1].Empty
  /\ Len(m.Layers[2].DecodedTiles) = 2
  /\ AllNil(m.Layers[2])
  /\ m.Layers[2].Empty

\* C15: once Read has derived a layer's metadata, a layer whose non-nil tiles all
\* belong to one tileset A has Tileset = A; a layer with tiles of two tilesets
\* has Tileset nil, Read has logged that it uses multiple tilesets, and every one
\* of its Width * Height cells holds a resolved tile; a layer of nil tiles only
\* has Tileset nil.  Only for a layer of several tilesets is the line logged.
C15_SingleTileset ==
  \A k \in 1..Len(m.Layers) :
    Derived(k) =>
      LET l == m.Layers[k]
      IN  /\ \A A \in 1..Len(m.Tilesets) :
               TilesetsOf(l) = {A} => (l.Tileset = A /\ ~LoggedMultiple(k))
          /\ Cardinality(TilesetsOf(l)) >= 2 =>
               /\ l.Tileset = NilTileset
               /\ LoggedMultiple(k)
               /\ Len(l.DecodedTiles) = m.Width * m.Height
               /\ \A e \in 1..Len(l.DecodedTiles) :
                    l.DecodedTiles[e] = decodeGID(m.Tilesets, decode(l, m.Width, m.Height).gids[e]).tile
          /\ TilesetsOf(l) = {} => (l.Tileset = NilTileset /\ ~LoggedMultiple(k))

\* a layer of a nil tile and a tile of the second tileset, then a layer with tiles
\* of both tilesets
C15_Witness ==
  /\ Succeeded
  /\ Len(m.Layers) = 2
  /\ ~AllNil(m.Layers[1]) /\ IsNil(m.Layers[1].DecodedTiles[1])
  /\ m.Layers[1].Tileset = 2
  /\ TilesetsOf(m.Layers[2]) = {1, 2}
  /\ m.Layers[2].Tileset = NilTileset
  /\ LoggedMultiple(2)

\* a layer of nil tiles only has no tileset
C15_WitnessNil ==
  /\ Succeeded
  /\ Len(m.Layers) = 1
  /\ Len(m.Layers[1].DecodedTiles) = 2
  /\ AllNil(m.Layers[1])
  /\ m.Layers[1].Tileset = NilTileset

---------------------------------------------------------------------------
(* decodePoints, Polygon.Decode and PolyLine.Decode.  An int is 64 bits    *)
(* wide, beyond TLC's integers: it is held as its sign and its decimal     *)
(* magnitude, a sequence of digits with no leading zero.                   *)

MkInt(neg, mag) == [neg |-> neg, mag |-> mag]

\* 2^63 - 1 and 2^63, the largest magnitudes of a positive and of a negative int
MaxIntMag ==
  <<"9", "2", "2", "3", "3", "7", "2", "0", "3", "6", "8", "5", "4", "7", "7", "5", "8", "0", "7">>

MinIntMag ==
  <<"9", "2", "2", "3", "3", "7", "2", "0", "3", "6", "8", "5", "4", "7", "7", "5", "8", "0", "8">>

RECURSIVE StripZeros(_)
\* the digits without their leading zeros, one digit at least
StripZeros(ds) == IF Len(ds) > 1 /\ ds[1] = "0" THEN StripZeros(Tail(ds)) ELSE ds

RECURSIVE DigitsLeq(_, _, _)
\* a <= b for two digit sequences of the same length, from position k on
DigitsLeq(a, b, k) ==
  IF k > Len(a) THEN TRUE
  ELSE IF DigitVal(a[k]) < DigitVal(b[k]) THEN TRUE
  ELSE IF DigitVal(a[k]) > DigitVal(b[k]) THEN FALSE
  ELSE DigitsLeq(a, b, k + 1)

\* a <= b for two magnitudes
MagLeq(a, b) == Len(a) < Len(b) \/ (Len(a) = Len(b) /\ DigitsLeq(a, b, 1))

\* strconv.Atoi with the sign dropped
Atoi_Unsigned(s) ==
  LET signed == s # <<>> /\ s[1] \in {"+", "-"}
      body == IF signed THEN Tail(s) ELSE s
  IN  IF body = <<>> \/ \E k \in 1..Len(body) : body[k] \notin Digits
      THEN [val |-> MkInt(FALSE, <<"0">>), err |-> "strconv.ErrSyntax"]
      ELSE [val |-> MkInt(FALSE, StripZeros(body)), err |-> NoError]

\* strconv.Atoi: an optional sign, then decimal digits only; the value must fit an int
Atoi(s) ==
  LET signed == s # <<>> /\ s[1] \in {"+", "-"}
      neg == s # <<>> /\ s[1] = "-"
      body == IF signed THEN Tail(s) ELSE s
      mag == StripZeros(body)
  IN  IF body = <<>> \/ \E k \in 1..Len(body) : body[k] \notin Digits
      THEN [val |-> MkInt(FALSE, <<"0">>), err |-> "strconv.ErrSyntax"]
      ELSE IF ~MagLeq(mag, IF neg THEN MinIntMag ELSE MaxIntMag)
      THEN [val |-> MkInt(neg, IF neg THEN MinIntMag ELSE MaxIntMag), err |-> "strconv.ErrRange"]
      ELSE [val |-> MkInt(neg /\ mag # <<"0">>, mag), err |-> NoError]

RECURSIVE PointsLoop(_, _, _)
\* the loop  for i, pointString := range pointStrings  of decodePoints
PointsLoop(pointStrings, i, points) ==
  IF i > Len(pointStrings) THEN [points |-> points, err |-> NoError]
  ELSE LET coordStrings == StringsSplit(pointStrings[i], ",")
       IN  IF Len(coordStrings) # 2 THEN [points |-> <<>>, err |-> InvalidPointsFieldError]
           ELSE LET x == Atoi(coordStrings[1])
                    y == Atoi(coordStrings[2])
                IN  IF x.err # NoError THEN [points |-> <<>>, err |-> x.err]
                    ELSE IF y.err # NoError THEN [points |-> <<>>, err |-> y.err]
                    ELSE PointsLoop(pointStrings, i + 1,
                                    [points EXCEPT ![i] = [X |-> x.val, Y |-> y.val]])

\* points = make([]Point, len(pointStrings)), then the loop
decodePoints(s) ==
  LET pointStrings == StringsSplit(s, " ")
  IN  PointsLoop(pointStrings, 1,
                 [k \in 1..Len(pointStrings) |-> [X |-> MkInt(FALSE, <<"0">>), Y |-> MkInt(FALSE, <<"0">>)]])

\* a nil pointer field of an Object
NilField == [ref |-> "nil"]

MkPolygon(Points) == [ref |-> "Polygon", Points |-> Points]

MkPolyLine(Points) == [ref |-> "PolyLine", Points |-> Points]

\* the empty element behind Object.Ellipse or Object.Point
EmptyStruct == [ref |-> "struct{}"]

---------------------------------------------------------------------------
(* Polygon.Decode and PolyLine.Decode called on an Object whose polygon    *)
(* and polyline carry the same points attribute; ret keeps what each call  *)
(* returned.                                                               *)

NotAsked == [err |-> "none"]

Polygon_Decode(p) == decodePoints(p.Points)

PolyLine_Decode(p) == decodePoints(p.Points)

\* points, err := o.Polygon.Decode()
PolygonDecode ==
  /\ pc = "object"
  /\ o.Polygon # NilField
  /\ ret' = [ret EXCEPT !.Polygon = Polygon_Decode(o.Polygon)]
  /\ UNCHANGED <<pc, r, m, li, gj, gids, trace, o>>

\* points, err := o.PolyLine.Decode()
PolyLineDecode ==
  /\ pc = "object"
  /\ o.PolyLine # NilField
  /\ ret' = [ret EXCEPT !.PolyLine = PolyLine_Decode(o.PolyLine)]
  /\ UNCHANGED <<pc, r, m, li, gj, gids, trace, o>>

NextPoints ==
  \/ PolygonDecode
  \/ PolyLineDecode

MaxPoints == 3

\* The tokens points strings are written from: the text, what it is (a point, a
\* token of one or three fields, a token with a component that is no number, a
\* number that fits no int) and, for a point, the integers it denotes.

\* "0,0"
TokenOrigin ==
  [text |-> <<"0", ",", "0">>,
   kind |-> "point", X |-> MkInt(FALSE, <<"0">>), Y |-> MkInt(FALSE, <<"0">>)]

\* "10,0"
TokenTenZero ==
  [text |-> <<"1", "0", ",", "0">>,
   kind |-> "point", X |-> MkInt(FALSE, <<"1", "0">>), Y |-> MkInt(FALSE, <<"0">>)]

\* "10,10"
TokenTenTen ==
  [text |-> <<"1", "0", ",", "1", "0">>,
   kind |-> "point", X |-> MkInt(FALSE, <<"1", "0">>), Y |-> MkInt(FALSE, <<"1", "0">>)]

\* "-5,+07"
TokenSigned ==
  [text |-> <<"-", "5", ",", "+", "0", "7">>,
   kind |-> "point", X |-> MkInt(TRUE, <<"5">>), Y |-> MkInt(FALSE, <<"7">>)]

\* "9223372036854775807,-1"
TokenLargest ==
  [text |-> <<"9", "2", "2", "3", "3", "7", "2", "0", "3", "6", "8", "5", "4", "7", "7", "5", "8", "0", "7", ",", "-", "1">>,
   kind |-> "point", X |-> MkInt(FALSE, <<"9", "2", "2", "3", "3", "7", "2", "0", "3", "6", "8", "5", "4", "7", "7", "5", "8", "0", "7">>), Y |-> MkInt(TRUE, <<"1">>)]

\* "0,-9223372036854775808"
TokenSmallest ==
  [text |-> <<"0", ",", "-", "9", "2", "2", "3", "3", "7", "2", "0", "3", "6", "8", "5", "4", "7", "7", "5", "8", "0", "8">>,
   kind |-> "point", X |-> MkInt(FALSE, <<"0">>), Y |-> MkInt(TRUE, <<"9", "2", "2", "3", "3", "7", "2", "0", "3", "6", "8", "5", "4", "7", "7", "5", "8", "0", "8">>)]

\* "bad"
TokenOneField ==
  [text |-> <<"b", "a", "d">>,
   kind |-> "fields", X |-> MkInt(FALSE, <<"0">>), Y |-> MkInt(FALSE, <<"0">>)]

\* ""
TokenEmptyToken ==
  [text |-> <<>>,
   kind |-> "fields", X |-> MkInt(FALSE, <<"0">>), Y |-> MkInt(FALSE, <<"0">>)]

\* "1,2,3"
TokenThreeFields ==
  [text |-> <<"1", ",", "2", ",", "3">>,
   kind |-> "fields", X |-> MkInt(FALSE, <<"0">>), Y |-> MkInt(FALSE, <<"0">>)]

\* "a,b"
TokenLetters ==
  [text |-> <<"a", ",", "b">>,
   kind |-> "syntax", X |-> MkInt(FALSE, <<"0">>), Y |-> MkInt(FALSE, <<"0">>)]

\* "-0,"
TokenNoY ==
  [text |-> <<"-", "0", ",">>,
   kind |-> "syntax", X |-> MkInt(FALSE, <<"0">>), Y |-> MkInt(FALSE, <<"0">>)]

\* "9223372036854775808,0"
TokenTooLarge ==
  [text |-> <<"9", "2", "2", "3", "3", "7", "2", "0", "3", "6", "8", "5", "4", "7", "7", "5", "8", "0", "8", ",", "0">>,
   kind |-> "range", X |-> MkInt(FALSE, <<"0">>), Y |-> MkInt(FALSE, <<"0">>)]

TokenPool ==
  {TokenOrigin, TokenTenZero, TokenTenTen, TokenSigned, TokenLargest, TokenSmallest,
   TokenOneField,
   TokenEmptyToken, TokenThreeFields, TokenLetters, TokenNoY, TokenTooLarge}

\* the tokens joined by single spaces
RECURSIVE JoinTokens(_)
JoinTokens(tokens) ==
  IF Len(tokens) = 1 THEN tokens[1].text
  ELSE tokens[1].text \o <<" ">> \o JoinTokens(Tail(tokens))

MkObject(Polygon, PolyLine, Ellipse, Point, X, Y, Width, Height, objectType) ==
  [Polygon |-> Polygon, PolyLine |-> PolyLine, Ellipse |-> Ellipse, Point |-> Point,
   X |-> X, Y |-> Y, Width |-> Width, Height |-> Height, objectType |-> objectType]

\* the state when the methods of an Object are called: Read is not running
ObjectCalled ==
  /\ pc = "object"
  /\ m = NewMap
  /\ li = 0
  /\ gj = 0
  /\ gids = <<>>
  /\ trace = <<>>

\* tokens keeps the tokens the points attribute was written from
InitPoints ==
  /\ ObjectCalled
  /\ \E tokens \in SeqsUpTo(TokenPool, MaxPoints) :
       /\ tokens # <<>>
       /\ r = [tokens |-> tokens]
       /\ o = MkObject(MkPolygon(JoinTokens(tokens)), MkPolyLine(JoinTokens(tokens)),
                       NilField, NilField, 0, 0, 0, 0, "ObjectType(0)")
  /\ ret = [Polygon |-> NotAsked, PolyLine |-> NotAsked]

SpecPoints == InitPoints /\ [][NextPoints]_vars

Kinds == {r.tokens[k].kind : k \in 1..Len(r.tokens)}

\* C16: Decode on a points string of k >= 1 tokens joined by single spaces, each
\* two base-10 integers that fit an int joined by one comma (a sign and leading
\* zeros allowed), succeeds and returns k points, the i-th holding the X and Y of
\* the i-th token, negative values kept; Polygon.Decode and PolyLine.Decode
\* return the same, for every points string.
C16_PointsInOrder ==
  /\ \A call \in {ret.Polygon, ret.PolyLine} :
       (call # NotAsked /\ Kinds = {"point"}) =>
         /\ call.err = NoError
         /\ Len(call.points) = Len(r.tokens)
         /\ \A i \in 1..Len(r.tokens) :
              call.points[i] = [X |-> r.tokens[i].X, Y |-> r.tokens[i].Y]
  /\ (ret.Polygon # NotAsked /\ ret.PolyLine # NotAsked) => ret.Polygon = ret.PolyLine

\* "0,0 10,0 10,10" decoded by both, and a string with negative values
C16_Witness ==
  /\ o.Polygon.Points = <<"0", ",", "0", " ", "1", "0", ",", "0", " ", "1", "0", ",", "1", "0">>
  /\ ret.Polygon.err = NoError
  /\ ret.PolyLine.err = NoError
  /\ ret.Polygon.points =
       <<[X |-> MkInt(FALSE, <<"0">>), Y |-> MkInt(FALSE, <<"0">>)],
         [X |-> MkInt(FALSE, <<"1", "0">>), Y |-> MkInt(FALSE, <<"0">>)],
         [X |-> MkInt(FALSE, <<"1", "0">>), Y |-> MkInt(FALSE, <<"1", "0">>)]>>

C16_WitnessNegative ==
  /\ r.tokens = <<TokenSmallest, TokenSigned, TokenLargest>>
  /\ ret.PolyLine.err = NoError
  /\ ret.PolyLine.points[1].Y = MkInt(TRUE, MinIntMag)
  /\ ret.PolyLine.points[2] = [X |-> MkInt(TRUE, <<"5">>), Y |-> MkInt(FALSE, <<"7">>)]
  /\ ret.PolyLine.points[3].X = MkInt(FALSE, MaxIntMag)

\* C17 as stated: on a points string with a token of another field count than two,
\* or with a component that is no number, Decode returns InvalidPointsFieldError
\* and no points.
C17_PointsFormatError ==
  \A call \in {ret.Polygon, ret.PolyLine} :
    (call # NotAsked /\ Kinds \cap {"fields", "syntax"} # {}) =>
      /\ call.err = InvalidPointsFieldError
      /\ call.points = <<>>

---------------------------------------------------------------------------
(* Read on documents of one 4 x 4 layer with a base64 payload compressed   *)
(* with zlib: the reader chain yields 64 bytes, some bytes fewer or more,  *)
(* or none, and ends with or without an error.                             *)

MaxOff == 4

\* how ioutil.ReadAll over the zlib reader ends: with no error (io.EOF), or with
\* the error of a truncated or corrupt stream
ZlibErrors == {NoError, "unexpected EOF", "zlib: invalid checksum", "flate: corrupt input"}

\* the first n bytes of a payload of GIDs
PayloadBytes(p, n) == SubSeq(WriteBytes(Fill(p, n \div 4 + 1)), 1, n)

IsZlibReader(x) ==
  \E n \in {0} \cup {64 + d : d \in (-MaxOff)..MaxOff}, p \in {"nil", "one", "mix"},
     err \in ZlibErrors :
    x = Doc(MkMap(4, 4, 0, OwnsAll, <<Base64Layer("zlib", PayloadBytes(p, n), err)>>))

InitZlib == IsZlibReader(r) /\ Called

SpecZlib == InitZlib /\ [][Next]_vars

\* C18: a 4 x 4 layer with a base64 payload under zlib of which the reader chain
\* yields another number of bytes than 64 makes Read fail with
\* InvalidDecodedDataLenError, whether the chain ended with an error (a truncated
\* or corrupt stream) or not.
C18_LengthError ==
  (DecodeCalled /\ Len(Stream.bytes) # 64) =>
    /\ pc = "done"
    /\ ret = Return("nil", InvalidDecodedDataLenError)

---------------------------------------------------------------------------
(* The shape kind of an Object and its geometry queries.  ret keeps, for   *)
(* each query, what its last call returned and the type o.GetType() gave   *)
(* that call.  Coordinates are float64 in the source; the values used here *)
(* are integers whose halves and quarters are integers, so the arithmetic  *)
(* is exact.                                                               *)

PolygonObj == "PolygonObj"
PolylineObj == "PolylineObj"
EllipseObj == "EllipseObj"
PointObj == "PointObj"
RectangleObj == "RectangleObj"

ErrInvalidObjectType == "ErrInvalidObjectType"

\* the values objectType can hold: the five kinds, and the zero value of the type
\* in case it is none of them
ObjectTypes == {PolygonObj, PolylineObj, EllipseObj, PointObj, RectangleObj, "ObjectType(0)"}

GetType(obj) == obj.objectType

\* hydrateType looking at the ellipse before the polygon and the polyline
hydrateType_EllipseFirst ==
  /\ pc = "object"
  /\ o' = [o EXCEPT !.objectType =
             IF o.Ellipse # NilField THEN EllipseObj
             ELSE IF o.Polygon # NilField THEN PolygonObj
             ELSE IF o.PolyLine # NilField THEN PolylineObj
             ELSE IF o.Point # NilField THEN PointObj
             ELSE RectangleObj]
  /\ UNCHANGED <<pc, r, m, li, gj, gids, trace, ret>>

\* o.hydrateType()
hydrateType ==
  /\ pc = "object"
  /\ o' = [o EXCEPT !.objectType =
             IF o.Polygon # NilField THEN PolygonObj
             ELSE IF o.PolyLine # NilField THEN PolylineObj
             ELSE IF o.Ellipse # NilField THEN EllipseObj
             ELSE IF o.Point # NilField THEN PointObj
             ELSE RectangleObj]
  /\ UNCHANGED <<pc, r, m, li, gj, gids, trace, ret>>

\* o.GetEllipse(): pixel.C(centre, radius), or pixel.C(pixel.ZV, 0) and the error
GetEllipse ==
  /\ pc = "object"
  /\ ret' = [ret EXCEPT !.GetEllipse =
               IF GetType(o) # EllipseObj
               THEN [val |-> [Center |-> <<0, 0>>, Radius |-> 0],
                     err |-> ErrInvalidObjectType, type |-> GetType(o)]
               ELSE [val |-> [Center |-> <<o.X + (o.Width \div 2), o.Y + (o.Height \div 2)>>,
                              Radius |-> (o.Width + o.Height) \div 4],
                     err |-> NoError, type |-> GetType(o)]]
  /\ UNCHANGED <<pc, r, m, li, gj, gids, trace, o>>

\* o.GetPoint(): pixel.V(o.X, o.Y), or pixel.ZV and the error
GetPoint ==
  /\ pc = "object"
  /\ ret' = [ret EXCEPT !.GetPoint =
               IF GetType(o) # PointObj
               THEN [val |-> <<0, 0>>, err |-> ErrInvalidObjectType, type |-> GetType(o)]
               ELSE [val |-> <<o.X, o.Y>>, err |-> NoError, type |-> GetType(o)]]
  /\ UNCHANGED <<pc, r, m, li, gj, gids, trace, o>>

\* GetRect without the test of the object's type
GetRect_NoCheck ==
  /\ pc = "object"
  /\ ret' = [ret EXCEPT !.GetRect =
               [val |-> [Min |-> <<o.X, o.Y>>, Max |-> <<o.X + o.Width, o.Y + o.Height>>],
                err |-> NoError, type |-> GetType(o)]]
  /\ UNCHANGED <<pc, r, m, li, gj, gids, trace, o>>

\* o.GetRect(): pixel.R(o.X, o.Y, o.X+o.Width, o.Y+o.Height), or pixel.R(0, 0, 0, 0)
\* and the error
GetRect ==
  /\ pc = "object"
  /\ ret' = [ret EXCEPT !.GetRect =
               IF GetType(o) # RectangleObj
               THEN [val |-> [Min |-> <<0, 0>>, Max |-> <<0, 0>>],
                     err |-> ErrInvalidObjectType, type |-> GetType(o)]
               ELSE [val |-> [Min |-> <<o.X, o.Y>>, Max |-> <<o.X + o.Width, o.Y + o.Height>>],
                     err |-> NoError, type |-> GetType(o)]]
  /\ UNCHANGED <<pc, r, m, li, gj, gids, trace, o>>

NextObject ==
  \/ hydrateType
  \/ GetEllipse
  \/ GetPoint
  \/ GetRect

\* which of polygon, polyline, ellipse and point an object element has
Presence == [{"polygon", "polyline", "ellipse", "point"} -> BOOLEAN]

\* an object as xml.Decode leaves it, with objectType at any value
IsObject(x) ==
  \E has \in Presence, X \in {0, 8}, Width \in {4, 12}, t \in ObjectTypes :
    x = MkObject(IF has["polygon"] THEN MkPolygon(TokenTenTen.text) ELSE NilField,
                 IF has["polyline"] THEN MkPolyLine(TokenOneField.text) ELSE NilField,
                 IF has["ellipse"] THEN EmptyStruct ELSE NilField,
                 IF has["point"] THEN EmptyStruct ELSE NilField,
                 X, 4, Width, 8, t)

InitObject ==
  /\ ObjectCalled
  /\ IsObject(o)
  /\ r = [object |-> o]
  /\ ret = [GetEllipse |-> NotAsked, GetPoint |-> NotAsked, GetRect |-> NotAsked]

SpecObject == InitObject /\ [][NextObject]_vars

\* the kind each query is for
QueryKind(q) ==
  CASE q = "GetEllipse" -> EllipseObj
    [] q = "GetPoint" -> PointObj
    [] q = "GetRect" -> RectangleObj

Queries == {"GetEllipse", "GetPoint", "GetRect"}

\* C19: a geometry query returns ErrInvalidObjectType (and zeroed geometry) when
\* the object's type is not the query's kind and succeeds when it is, so of the
\* queries made on an object of one type at most one succeeds.
C19_WrongKindFails ==
  /\ \A q \in Queries :
       ret[q] # NotAsked =>
         /\ ret[q].type # QueryKind(q) => ret[q].err = ErrInvalidObjectType
         /\ ret[q].type = QueryKind(q) => ret[q].err = NoError
         /\ ret[q].err \in {NoError, ErrInvalidObjectType}
  /\ \A q1, q2 \in Queries :
       (q1 # q2 /\ ret[q1] # NotAsked /\ ret[q2] # NotAsked /\ ret[q1].type = ret[q2].type)
         => ~(ret[q1].err = NoError /\ ret[q2].err = NoError)
  /\ ret.GetEllipse # NotAsked /\ ret.GetEllipse.err # NoError =>
       ret.GetEllipse.val = [Center |-> <<0, 0>>, Radius |-> 0]

\* all three queries made on a hydrated ellipse object: GetEllipse alone succeeded
C19_Witness ==
  /\ o.Ellipse # NilField /\ o.Polygon = NilField /\ o.PolyLine = NilField
  /\ o.objectType = EllipseObj
  /\ r.object.objectType # EllipseObj
  /\ o.X = 8 /\ o.Width = 12
  /\ ret.GetEllipse = [val |-> [Center |-> <<14, 8>>, Radius |-> 5],
                       err |-> NoError, type |-> EllipseObj]
  /\ ret.GetPoint = [val |-> <<0, 0>>, err |-> ErrInvalidObjectType, type |-> EllipseObj]
  /\ ret.GetRect.err = ErrInvalidObjectType
  /\ ret.GetRect.type = EllipseObj

---------------------------------------------------------------------------
(* The order of Read's steps, over the documents of Spec. *)

\* the step of the Map Assembler a call belongs to: payload decoding, GID
\* resolution, or the derivation of a layer's metadata
StepOf(call) ==
  CASE call[1] = "decode" -> 3
    [] call[1] = "decodeGID" -> 4
    [] OTHER -> 5

\* the error of decoding the payload of layer k of doc
PayloadError(doc, k) == decode(doc.Layers[k], doc.Width, doc.Height).err

\* layer k of doc decodes and holds a GID that no tileset owns
HasInvalidGID(doc, k) ==
  LET d == decode(doc.Layers[k], doc.Width, doc.Height)
  IN  /\ d.err = NoError
      /\ \E e \in 1..Len(d.gids) : decodeGID(doc.Tilesets, d.gids[e]).err # NoError

\* C20: Read never goes back to an earlier step: every payload is decoded before
\* any GID is resolved, and every GID resolved before any metadata is derived;
\* so a document with an invalid GID in an earlier layer and a payload error in
\* a later layer makes Read return the payload error.
C20_LinearOrder ==
  /\ \A i, j \in 1..Len(trace) : i < j => StepOf(trace[i]) <= StepOf(trace[j])
  /\ (Returned /\ ~r.xmlErr /\ r.doc.Infinite # 1) =>
       \A a, b \in 1..Len(r.doc.Layers) :
         (a < b /\ HasInvalidGID(r.doc, a) /\ PayloadError(r.doc, b) # NoError)
           => ret = Return("nil", PayloadError(r.doc, b))

---------------------------------------------------------------------------
(* Read on documents of one csv layer whose text is written from fields    *)
(* joined by commas, with characters that are neither digit nor comma put  *)
(* in between.                                                             *)

MaxFields == 3

\* The fields: the digits, what they are (a GID, an empty field, a number above
\* 2^32 - 1) and, for a GID, its value.
FieldZero == [text |-> <<"0">>, kind |-> "gid", val |-> Zero32]

FieldLeadingZeros == [text |-> <<"0", "0", "7">>, kind |-> "gid", val |-> U32(0, 7)]

FieldTen == [text |-> <<"1", "0">>, kind |-> "gid", val |-> U32(0, 10)]

\* 2^32 - 1
FieldLargest ==
  [text |-> <<"4", "2", "9", "4", "9", "6", "7", "2", "9", "5">>, kind |-> "gid",
   val |-> U32(65535, 65535)]

\* 2^32
FieldTooLarge ==
  [text |-> <<"4", "2", "9", "4", "9", "6", "7", "2", "9", "6">>, kind |-> "range",
   val |-> Zero32]

FieldEmpty == [text |-> <<>>, kind |-> "empty", val |-> Zero32]

FieldPool == {FieldZero, FieldLeadingZeros, FieldTen, FieldLargest, FieldTooLarge, FieldEmpty}

RECURSIVE JoinFields(_)
\* the fields joined by commas
JoinFields(fields) ==
  IF Len(fields) = 1 THEN fields[1].text
  ELSE fields[1].text \o <<",">> \o JoinFields(Tail(fields))

\* characters the cleaner drops: white space, a sign, a letter, a point
NoisePool == {<<" ">>, <<"\n", "\t">>, <<"-">>, <<"x", ".", "+">>}

\* where they are put: nowhere, before the text, after it, or around every character
NoisePlaces == {"none", "lead", "trail", "all"}

RECURSIVE Weave(_, _)
\* noise before every character of text
Weave(text, noise) ==
  IF text = <<>> THEN <<>> ELSE noise \o <<text[1]>> \o Weave(Tail(text), noise)

Noisy(text, noise, place) ==
  CASE place = "none" -> text
    [] place = "lead" -> noise \o text
    [] place = "trail" -> text \o noise
    [] place = "all" -> Weave(text, noise) \o noise

\* fields keeps the fields the text was written from
IsNoiseReader(x) ==
  \E fields \in SeqsUpTo(FieldPool, MaxFields), noise \in NoisePool, place \in NoisePlaces,
     wh \in {<<1, 1>>, <<1, 2>>, <<3, 1>>} :
    /\ fields # <<>>
    /\ x = [xmlErr |-> FALSE, fields |-> fields,
            doc |-> MkMap(wh[1], wh[2], 0, OwnsAll,
                          <<CSVLayer(Noisy(JoinFields(fields), noise, place))>>)]

InitNoise == IsNoiseReader(r) /\ Called

SpecNoise == InitNoise /\ [][Next]_vars

\* the fields that are no GID
BadFields == {k \in 1..Len(r.fields) : r.fields[k].kind # "gid"}

FirstBad == CHOOSE k \in BadFields : \A j \in BadFields : k <= j

RawData == r.doc.Layers[1].Data.RawData

\* C21: what decoding a csv layer gives depends on the fields only, not on the
\* other characters of the text: when every field is a decimal of at most
\* 2^32 - 1 the GIDs are their values in order (and the layer is refused with
\* InvalidDecodedDataLenError when they do not number width * height); an empty
\* field or a number above 2^32 - 1 makes decoding fail with the parse error of
\* the first such field, a syntax error or a range error.
C21_DigitsAndCommasOnly ==
  DecodeCalled =>
    /\ (BadFields = {} /\ Len(r.fields) = Cells) =>
         /\ Decoded
         /\ gids = [k \in 1..Len(r.fields) |-> r.fields[k].val]
    /\ (BadFields = {} /\ Len(r.fields) # Cells) =>
         ret = Return("nil", InvalidDecodedDataLenError)
    /\ BadFields # {} =>
         ret = Return("nil", IF r.fields[FirstBad].kind = "empty"
                             THEN "strconv.ErrSyntax" ELSE "strconv.ErrRange")

\* "007,4294967295" with a sign, a letter and a point around every character
C21_Witness ==
  /\ Decoded
  /\ r.fields = <<FieldLeadingZeros, FieldLargest>>
  /\ Len(RawData) > 4 * Len(JoinFields(r.fields))
  /\ RawData[1] = "x"
  /\ gids = <<U32(0, 7), U32(65535, 65535)>>

\* a doubled comma between two GIDs, and 2^32 after a GID, in texts with white space
C21_WitnessEmpty ==
  /\ DecodeCalled
  /\ r.fields = <<FieldTen, FieldEmpty, FieldTen>>
  /\ Cells = 3
  /\ RawData # JoinFields(r.fields)
  /\ ret = Return("nil", "strconv.ErrSyntax")

C21_WitnessRange ==
  /\ DecodeCalled
  /\ r.fields = <<FieldZero, FieldTooLarge>>
  /\ RawData # JoinFields(r.fields)
  /\ ret = Return("nil", "strconv.ErrRange")

---------------------------------------------------------------------------
(* The tileset search on lists in any order (SpecGID). *)

\* the last-listed tileset whose FirstGID is at most the bare GID
LastOwner(g) == CHOOSE k \in Owners(g) : \A j \in Owners(g) : j <= k

FirstGIDsOf(ts) == [k \in 1..Len(ts) |-> ts[k].FirstGID]

\* C22: whatever the order of the tileset list, a non-zero GID resolves to the
\* last-listed tileset whose FirstGID is at most the bare GID, with the ID
\* counted from that FirstGID, and to InvalidGIDError when there is none; the
\* list is kept in document order, and Read returns the map with no error
\* whenever the GID is 0 or has such a tileset.
C22_LastListedOwner ==
  /\ (GIDCalled /\ GIDIn # Zero32 /\ Owners(GIDIn) # {}) =>
       /\ TileOut # NoTile
       /\ TileOut.Tileset = LastOwner(GIDIn)
       /\ TileOut.ID = Sub32(Bare(GIDIn), m.Tilesets[LastOwner(GIDIn)].FirstGID)
  /\ (GIDCalled /\ GIDIn # Zero32 /\ Owners(GIDIn) = {}) =>
       (TileOut = NoTile /\ ret = Return("nil", InvalidGIDError))
  /\ pc # "Read" => FirstGIDsOf(m.Tilesets) = FirstGIDsOf(r.doc.Tilesets)
  /\ (Returned /\ (GIDIn = Zero32 \/ Owners(GIDIn) # {})) =>
       (Succeeded /\ ret.err = NoError)

\* FirstGIDs 3 then 1 and a bare GID of 2^16 - 1: the second tileset owns it,
\* though the first has the larger FirstGID, and Read has returned the map
C22_Witness ==
  /\ Returned
  /\ Succeeded
  /\ FirstGIDsOf(m.Tilesets) = <<U32(0, 3), U32(0, 1)>>
  /\ ~Ascending(m.Tilesets)
  /\ Bare(GIDIn) = U32(0, 65535)
  /\ TileOut.Tileset = 2
  /\ TileOut.ID = U32(0, 65534)

---------------------------------------------------------------------------
(* The kind hydrateType gives an object (SpecObject). *)

\* the shape kinds in the order of their priority
Priority == <<PolygonObj, PolylineObj, EllipseObj, PointObj>>

\* the shape kinds whose sub-element the object has
Present(obj) ==
  {k \in 1..Len(Priority) :
     \/ k = 1 /\ obj.Polygon # NilField
     \/ k = 2 /\ obj.PolyLine # NilField
     \/ k = 3 /\ obj.Ellipse # NilField
     \/ k = 4 /\ obj.Point # NilField}

\* the kind of highest priority among them, the rectangle when there is none
KindOf(obj) ==
  IF Present(obj) = {} THEN RectangleObj
  ELSE Priority[CHOOSE k \in Present(obj) : \A j \in Present(obj) : k <= j]

\* C23: a call of hydrateType sets the object's kind to the one of highest
\* priority among polygon > polyline > ellipse > point whose sub-element is
\* present, to rectangle when none is, whatever the kind was before, and changes
\* nothing else of the object; on an object whose kind was set that way a
\* further call changes nothing.  No step gives an object another kind.
C23_ShapePriority ==
  [][/\ hydrateType =>
          /\ o'.objectType = KindOf(o)
          /\ o'.objectType \in {PolygonObj, PolylineObj, EllipseObj, PointObj, RectangleObj}
          /\ o' = [o EXCEPT !.objectType = KindOf(o)]
          /\ KindOf(o') = KindOf(o)
          /\ o.objectType = KindOf(o) => o' = o
     /\ o' # o => o'.objectType = KindOf(r.object)]_vars

\* an object with both a polygon and an ellipse, decoded with the ellipse kind,
\* after hydrateType: a polygon
C23_Witness ==
  /\ o.Polygon # NilField /\ o.Ellipse # NilField /\ o.PolyLine = NilField
  /\ r.object.objectType = EllipseObj
  /\ o.objectType = PolygonObj
  /\ o = [r.object EXCEPT !.objectType = PolygonObj]

\* an object with no shape sub-element, after hydrateType: a rectangle
C23_WitnessRectangle ==
  /\ Present(o) = {}
  /\ r.object.objectType # RectangleObj
  /\ o.objectType = RectangleObj

====
